---------------------------- MODULE Spec2Model ----------------------------
(***************************************************************************)
(* A model of the chat relay of src/main.py: the Socket.IO event handlers  *)
(* (connect, disconnect, join, send_message), the message table and the    *)
(* history query.  Handlers of different connections run concurrently      *)
(* (the server runs threaded), so every handler is a sequence of steps,    *)
(* one step per access to shared state (the presence dict, the room        *)
(* membership, the message table, the clock).                              *)
(***************************************************************************)
EXTENDS Integers, Sequences, FiniteSets, TLC

(***************************************************************************)
(* Bounds of the model.                                                    *)
(***************************************************************************)
MaxConn == 2
MaxClock == 2
MaxEvents == 2
MaxProbe == 11
MaxNeg == 1

Conns == 1..MaxConn

(***************************************************************************)
(* Text.  A string is a sequence of one-character strings.                 *)
(***************************************************************************)
Digits == <<"0", "1", "2", "3", "4", "5", "6", "7", "8", "9">>

Whitespace == {" "}

Min(a, b) == IF a <= b THEN a ELSE b

Max(a, b) == IF a >= b THEN a ELSE b

\* str(n) of a natural number.
RECURSIVE NatToStr(_)
NatToStr(n) ==
    IF n < 10 THEN <<Digits[n + 1]>>
    ELSE NatToStr(n \div 10) \o <<Digits[(n % 10) + 1]>>

\* str(n) of an integer, as the f-string of get_room formats it.
IntToStr(n) == IF n < 0 THEN <<"-">> \o NatToStr(-n) ELSE NatToStr(n)

DigitValue(ch) == CHOOSE d \in 0..9 : Digits[d + 1] = ch

IsDigit(ch) == \E d \in 1..10 : Digits[d] = ch

RECURSIVE DigitsToNat(_)
DigitsToNat(s) ==
    IF s = <<>> THEN 0
    ELSE 10 * DigitsToNat(SubSeq(s, 1, Len(s) - 1)) + DigitValue(s[Len(s)])

\* int(x) succeeds: an optional sign and at least one digit.
IsInt(s) ==
    LET body == IF s # <<>> /\ s[1] = "-" THEN Tail(s) ELSE s
    IN  body # <<>> /\ \A i \in 1..Len(body) : IsDigit(body[i])

\* int(x) of a string for which IsInt holds.
ParseInt(s) ==
    IF s[1] = "-" THEN 0 - DigitsToNat(Tail(s)) ELSE DigitsToNat(s)

\* str.strip(): leading and trailing whitespace removed.
RECURSIVE LStrip(_)
LStrip(s) ==
    IF s # <<>> /\ s[1] \in Whitespace THEN LStrip(Tail(s)) ELSE s

RECURSIVE RStrip(_)
RStrip(s) ==
    IF s # <<>> /\ s[Len(s)] \in Whitespace
    THEN RStrip(SubSeq(s, 1, Len(s) - 1))
    ELSE s

\* no stripping at all
StripNone(s) == s

Strip(s) == RStrip(LStrip(s))

(***************************************************************************)
(* get_room: the room of two users.                                        *)
(***************************************************************************)
get_room_unordered(user1, user2) ==
    <<"r", "o", "o", "m", "_">> \o IntToStr(user1) \o <<"_">> \o IntToStr(user2)

get_room(user1, user2) ==
    <<"r", "o", "o", "m", "_">> \o IntToStr(Min(user1, user2))
        \o <<"_">> \o IntToStr(Max(user1, user2))


(***************************************************************************)
(* Inputs the clients send.                                                *)
(***************************************************************************)
\* userId of the connect query string (a string; absent is a separate case).
UserIds == {<<"1">>, <<"2">>}

\* (sender_id, receiver_id) of the payloads the clients send: three pairs
\* that int() accepts, two of them the same pair either way round, and one
\* that makes int() raise ValueError
IdPairs == {<<<<"1">>, <<"2">>>>, <<<<"2">>, <<"1">>>>, <<<<"2">>, <<"2">>>>,
            <<<<"x">>, <<"1">>>>}

\* message of a send_message payload.
RawTexts == {<<>>, <<" ">>, <<" ", "h", " ">>}

(***************************************************************************)
(* State.                                                                  *)
(*   status          transport state of each connection (request.sid)      *)
(*   connected_users the presence dict, as its entry array in insertion    *)
(*                   order; a deleted entry stays as a dead slot           *)
(*   rooms           Socket.IO room membership: pairs <<room, sid>>        *)
(*   messages        rows of the Message table in insertion order          *)
(*   clock           the last value datetime.now(timezone.utc) gave a row   *)
(*   task            the join / send_message / connect handler running     *)
(*                   for each connection, with its local variables and     *)
(*                   the events it has emitted so far                      *)
(*   disc            the disconnect handler of each connection             *)
(*   everJoined      history: <<sid, {a, b}>> for every join_room done     *)
(*   identified      history: the sids that connected with a userId        *)
(*   resp            the last response of the history route                *)
(*   probe           inputs and results of get_room (RoomSpec only)        *)
(*   events          how many requests the clients have made               *)
(***************************************************************************)
VARIABLES status, connected_users, rooms, messages, clock, task, disc,
          everJoined, identified, resp, probe, events

vars == <<status, connected_users, rooms, messages, clock, task, disc,
          everJoined, identified, resp, probe, events>>

NoTask ==
    [kind |-> "idle", pc |-> "idle", sender_id |-> 0, receiver_id |-> 0,
     text |-> <<>>, ts |-> 0, mid |-> 0, out |-> <<>>]

NoDisc == [pc |-> "idle", i |-> 0, n |-> 0, found |-> FALSE, user_id |-> <<>>]

NoResp == [user1 |-> 0, user2 |-> 0, status |-> 0, rows |-> <<>>]

NoProbe == [a |-> 0, b |-> 0, c |-> 0, d |-> 0, done |-> FALSE,
            r1 |-> <<>>, r2 |-> <<>>]

(***************************************************************************)
(* The presence dict.                                                      *)
(***************************************************************************)
DeadSlot == [uid |-> <<>>, sid |-> 0, live |-> FALSE]

LiveIdx(cu) == {k \in 1..Len(cu) : cu[k].live}

\* len(connected_users)
DictSize(cu) == Cardinality(LiveIdx(cu))

HasKey(cu, uid) == \E k \in LiveIdx(cu) : cu[k].uid = uid

KeyIdx(cu, uid) == CHOOSE k \in LiveIdx(cu) : cu[k].uid = uid

\* connected_users.get(uid): the sid, or 0 for None.
Lookup(cu, uid) == IF HasKey(cu, uid) THEN cu[KeyIdx(cu, uid)].sid ELSE 0

\* connected_users[uid] = sid
DictSet(cu, uid, sid) ==
    IF HasKey(cu, uid)
    THEN [cu EXCEPT ![KeyIdx(cu, uid)].sid = sid]
    ELSE Append(cu, [uid |-> uid, sid |-> sid, live |-> TRUE])

\* del connected_users[uid], for a key that is present
DictDel(cu, uid) == [cu EXCEPT ![KeyIdx(cu, uid)] = DeadSlot]

(***************************************************************************)
(* Rooms and emit.                                                         *)
(***************************************************************************)
Members(rs, room) == {c \in Conns : <<room, c>> \in rs}

\* manager.disconnect(sid): the sid leaves every room
LeaveAll(rs, sid) == {m \in rs : m[2] # sid}

Event(ev, room, sid, rcpts, mid, ts, why) ==
    [ev |-> ev, room |-> room, sid |-> sid, rcpts |-> rcpts,
     mid |-> mid, ts |-> ts, why |-> why]

\* emit(ev, ..., room=request.sid): to the connection's own room, which
\* exists while the connection is connected.
Private(st, ev, sid, mid, ts, why) ==
    Event(ev, <<>>, sid, IF st[sid] \in {"open", "closing"} THEN {sid} ELSE {},
          mid, ts, why)

\* emit(ev, ..., to=room) reaching the connections in rcpts
ToRoom(ev, room, rcpts, mid, ts) == Event(ev, room, 0, rcpts, mid, ts, "")

Emit(t, e) == [t EXCEPT !.out = Append(@, e)]

(***************************************************************************)
(* The Message table and the history query.                                *)
(***************************************************************************)
\* The rowid SQLite gives an INTEGER PRIMARY KEY: one more than the largest.
NextIdReused(msgs) == IF msgs = <<>> THEN 1 ELSE msgs[Len(msgs)].id

NextId(msgs) == IF msgs = <<>> THEN 1 ELSE msgs[Len(msgs)].id + 1

\* a row written without the value the column default produced
RowUnstamped(id, sender_id, receiver_id, message, timestamp) ==
    [id |-> id, sender_id |-> sender_id, receiver_id |-> receiver_id,
     message |-> message, timestamp |-> 0]

Row(id, sender_id, receiver_id, message, timestamp) ==
    [id |-> id, sender_id |-> sender_id, receiver_id |-> receiver_id,
     message |-> message, timestamp |-> timestamp]

\* db.session.commit() that does not keep the row
CommitLost(msgs, row) == msgs

\* db.session.add(msg); db.session.commit()
Commit(msgs, row) == Append(msgs, row)

\* the filter of get_messages, one direction only
MatchesOneWay(m, user1, user2) ==
    m.sender_id = user1 /\ m.receiver_id = user2

\* the filter of get_messages
Matches(m, user1, user2) ==
    \/ (m.sender_id = user1 /\ m.receiver_id = user2)
    \/ (m.sender_id = user2 /\ m.receiver_id = user1)

\* ORDER BY timestamp ASC.  The query names no second key: rows of equal
\* timestamp come in the order the database happens to produce, by rowid
\* upwards or (desc) downwards.
ComesBefore(m1, m2, desc) ==
    \/ m1.timestamp < m2.timestamp
    \/ /\ m1.timestamp = m2.timestamp
       /\ IF desc THEN m1.id > m2.id ELSE m1.id < m2.id

RECURSIVE OrderBy(_, _)
OrderBy(rows, desc) ==
    IF rows = {} THEN <<>>
    ELSE LET first == CHOOSE m \in rows :
                          \A o \in rows \ {m} : ComesBefore(m, o, desc)
         IN  <<first>> \o OrderBy(rows \ {first}, desc)

\* Message.query.filter(...).order_by(...).all()
History(msgs, user1, user2, desc) ==
    OrderBy({msgs[k] : k \in {j \in 1..Len(msgs) : Matches(msgs[j], user1, user2)}},
            desc)

(***************************************************************************)
(* Initial state: no connection yet, empty dict, empty table.              *)
(***************************************************************************)
Init ==
    /\ status = [c \in Conns |-> "new"]
    /\ connected_users = <<>>
    /\ rooms = {}
    /\ messages = <<>>
    /\ clock = 1
    /\ task = [c \in Conns |-> NoTask]
    /\ disc = [c \in Conns |-> NoDisc]
    /\ everJoined = {}
    /\ identified = {}
    /\ resp = NoResp
    /\ probe = NoProbe
    /\ events = 0

(***************************************************************************)
(* connect                                                                 *)
(***************************************************************************)
\* handle_connect with a userId: the entry is written and "connected" is
\* emitted to the new connection itself
Connect(c, user_id) ==
    /\ status[c] = "new"
    /\ status' = [status EXCEPT ![c] = "open"]
    /\ connected_users' = DictSet(connected_users, user_id, c)
    /\ identified' = identified \cup {c}
    /\ UNCHANGED <<rooms, messages, clock, task, disc, everJoined, resp,
                   probe, events>>

\* handle_connect without a userId: nothing is registered, nothing emitted
ConnectAnonymous(c) ==
    /\ status[c] = "new"
    /\ status' = [status EXCEPT ![c] = "open"]
    /\ UNCHANGED <<connected_users, rooms, messages, clock, task, disc,
                   everJoined, identified, resp, probe, events>>

(***************************************************************************)
(* disconnect                                                              *)
(***************************************************************************)
\* the transport closes; handle_disconnect starts its loop over the dict
Disconnect(c) ==
    /\ status[c] = "open"
    /\ status' = [status EXCEPT ![c] = "closing"]
    /\ disc' = [disc EXCEPT ![c] =
                   [NoDisc EXCEPT !.pc = "scan", !.i = 1,
                                  !.n = DictSize(connected_users)]]
    /\ UNCHANGED <<connected_users, rooms, messages, clock, task,
                   everJoined, identified, resp, probe, events>>

\* one iteration of the loop: the iterator raises RuntimeError when the
\* dict changed size since the loop started
ScanStep(cu, d, c) ==
    LET later == {k \in LiveIdx(cu) : k >= d.i}
        k == CHOOSE x \in later : \A y \in later : x <= y
    IN  IF DictSize(cu) # d.n THEN [NoDisc EXCEPT !.pc = "raised"]
        ELSE IF later = {} THEN [NoDisc EXCEPT !.pc = "del"]
        ELSE IF cu[k].sid = c
             THEN [NoDisc EXCEPT !.pc = "del", !.found = TRUE, !.user_id = cu[k].uid]
             ELSE [d EXCEPT !.i = k + 1]

DiscScan(c) ==
    /\ disc[c].pc = "scan"
    /\ disc' = [disc EXCEPT ![c] = ScanStep(connected_users, disc[c], c)]
    /\ UNCHANGED <<status, connected_users, rooms, messages, clock, task,
                   everJoined, identified, resp, probe, events>>

\* if user_id: del connected_users[user_id]
DelStep(cu, d, c) ==
    IF d.found /\ HasKey(cu, d.user_id) THEN DictDel(cu, d.user_id) ELSE cu

DiscDel(c) ==
    /\ disc[c].pc = "del"
    /\ connected_users' = DelStep(connected_users, disc[c], c)
    /\ disc' = [disc EXCEPT ![c] =
                   IF disc[c].found /\ ~HasKey(connected_users, disc[c].user_id)
                   THEN [NoDisc EXCEPT !.pc = "raised"]
                   ELSE [NoDisc EXCEPT !.pc = "leave"]]
    /\ UNCHANGED <<status, rooms, messages, clock, task,
                   everJoined, identified, resp, probe, events>>

\* after the handler (returned or raised) the server takes the sid out of
\* every room, its own included
DiscLeave(c) ==
    /\ disc[c].pc \in {"leave", "raised"}
    /\ rooms' = LeaveAll(rooms, c)
    /\ status' = [status EXCEPT ![c] = "closed"]
    /\ disc' = [disc EXCEPT ![c] =
                   [NoDisc EXCEPT !.pc = IF disc[c].pc = "raised"
                                         THEN "failed" ELSE "done"]]
    /\ UNCHANGED <<connected_users, messages, clock, task,
                   everJoined, identified, resp, probe, events>>

(***************************************************************************)
(* Handlers of client events, one per connection at a time.  The first     *)
(* step of a handler does the handler's local work (int(), strip()) and    *)
(* its first access to shared state; it runs some time after the client    *)
(* sent the event, so the connection may be closing or closed by then.     *)
(* A finished handler keeps what it emitted until the next one starts.     *)
(***************************************************************************)
Free(c) == status[c] # "new" /\ task[c].pc \in {"idle", "done"}

\* the room an emit(..., to=room) of a handler goes to
RoomOf(t) == get_room(t.sender_id, t.receiver_id)

\* an emit that reaches every connected client (broadcast=True)
FanOutAll(rs, st, room, sid) == {c \in Conns : st[c] \in {"open", "closing"}}

\* an emit that leaves the emitting connection out (include_self=False)
FanOutOthers(rs, st, room, sid) == Members(rs, room) \ {sid}

\* the connections an emit(..., to=room) of the handler of sid reaches
FanOut(rs, st, room, sid) == Members(rs, room)

\* an except branch that swallows the exception and emits nothing
FailedQuiet(st, t, c) == [t EXCEPT !.pc = "done"]

\* except Exception: emit("error", ..., room=request.sid)
Failed(st, t, c) ==
    [Emit(t, Private(st, "error", c, 0, 0,
                     IF t.kind = "join" THEN "Failed to join room"
                     ELSE "Failed to send message"))
     EXCEPT !.pc = "done"]

Except(c) ==
    /\ task[c].pc = "except"
    /\ task' = [task EXCEPT ![c] = Failed(status, @, c)]
    /\ UNCHANGED <<status, connected_users, rooms, messages, clock, disc,
                   everJoined, identified, resp, probe, events>>

\* emit(ev, ..., to=room) by the handler of c: it reaches every member and
\* returns, or it raises having reached only some of them
Broadcast(c, ev, next) ==
    LET t == task[c]
        all == FanOut(rooms, status, RoomOf(t), c)
    IN  \/ task' = [task EXCEPT ![c] =
                       [Emit(t, ToRoom(ev, RoomOf(t), all, t.mid, t.ts))
                        EXCEPT !.pc = next]]
        \/ \E some \in SUBSET all :
              task' = [task EXCEPT ![c] =
                          [Emit(t, ToRoom(ev, RoomOf(t), some, t.mid, t.ts))
                           EXCEPT !.pc = "except"]]

(***************************************************************************)
(* join                                                                    *)
(***************************************************************************)
\* int(data['sender_id']) ... join_room(room): a bad payload raises, and
\* so does join_room for a sid the server no longer knows
JoinEnter(c, sender_id, receiver_id, has_name) ==
    /\ Free(c)
    /\ events < MaxEvents
    /\ events' = events + 1
    /\ IF IsInt(sender_id) /\ IsInt(receiver_id) /\ has_name /\ status[c] # "closed"
       THEN LET t == [NoTask EXCEPT !.kind = "join", !.pc = "system",
                                    !.sender_id = ParseInt(sender_id),
                                    !.receiver_id = ParseInt(receiver_id)]
            IN  /\ rooms' = rooms \cup {<<RoomOf(t), c>>}
                /\ everJoined' = everJoined \cup {<<c, {t.sender_id, t.receiver_id}>>}
                /\ task' = [task EXCEPT ![c] = t]
       ELSE /\ task' = [task EXCEPT ![c] =
                           Failed(status, [NoTask EXCEPT !.kind = "join"], c)]
            /\ UNCHANGED <<rooms, everJoined>>
    /\ UNCHANGED <<status, connected_users, messages, clock, disc,
                   identified, resp, probe>>

\* emit("system", ..., to=room)
JoinSystem(c) ==
    /\ task[c].pc = "system"
    /\ Broadcast(c, "system", "confirm")
    /\ UNCHANGED <<status, connected_users, rooms, messages, clock, disc,
                   everJoined, identified, resp, probe, events>>

\* emit("joined_room", ..., room=request.sid)
JoinConfirm(c) ==
    /\ task[c].pc = "confirm"
    /\ task' = [task EXCEPT ![c] =
                   [Emit(@, Private(status, "joined_room", c, 0, 0, ""))
                    EXCEPT !.pc = "done"]]
    /\ UNCHANGED <<status, connected_users, rooms, messages, clock, disc,
                   everJoined, identified, resp, probe, events>>

(***************************************************************************)
(* send_message                                                            *)
(***************************************************************************)
\* int(data["sender_id"]) ... db.session.add(msg), up to the column default
\* datetime.now(timezone.utc), which is taken when the session is flushed,
\* before the INSERT gets the database: the instant of the last reading of
\* the clock, or a later one
SendStart(c, sender_id, receiver_id, message) ==
    /\ Free(c)
    /\ events < MaxEvents
    /\ events' = events + 1
    /\ IF ~(IsInt(sender_id) /\ IsInt(receiver_id))
       THEN /\ task' = [task EXCEPT ![c] =
                           Failed(status, [NoTask EXCEPT !.kind = "send"], c)]
            /\ UNCHANGED clock
       ELSE IF Strip(message) = <<>>
       THEN /\ task' = [task EXCEPT ![c] =
                           [Emit([NoTask EXCEPT !.kind = "send",
                                                !.sender_id = ParseInt(sender_id),
                                                !.receiver_id = ParseInt(receiver_id)],
                                 Private(status, "error", c, 0, 0,
                                         "Message cannot be empty"))
                            EXCEPT !.pc = "done"]]
            /\ UNCHANGED clock
       ELSE /\ \/ clock' = clock
               \/ /\ clock < MaxClock
                  /\ clock' = clock + 1
            /\ task' = [task EXCEPT ![c] =
                           [NoTask EXCEPT !.kind = "send", !.pc = "commit",
                                          !.sender_id = ParseInt(sender_id),
                                          !.receiver_id = ParseInt(receiver_id),
                                          !.text = Strip(message),
                                          !.ts = clock']]
    /\ UNCHANGED <<status, connected_users, rooms, messages, disc,
                   everJoined, identified, resp, probe>>

\* db.session.commit(); db.session.refresh(msg): the row is written with
\* the next id, or the database raises
SendCommit(c) ==
    /\ task[c].pc = "commit"
    /\ \/ LET t == task[c]
              id == NextId(messages)
          IN  /\ messages' = Commit(messages,
                     Row(id, t.sender_id, t.receiver_id, t.text, t.ts))
              /\ task' = [task EXCEPT ![c].mid = id, ![c].pc = "broadcast"]
       \/ /\ task' = [task EXCEPT ![c].pc = "except"]
          /\ UNCHANGED messages
    /\ UNCHANGED <<status, connected_users, rooms, clock, disc,
                   everJoined, identified, resp, probe, events>>

\* emit("receive_message", payload, to=room)
SendBroadcast(c) ==
    /\ task[c].pc = "broadcast"
    /\ Broadcast(c, "receive_message", "ack")
    /\ UNCHANGED <<status, connected_users, rooms, messages, clock, disc,
                   everJoined, identified, resp, probe, events>>

\* emit("message_sent", ..., room=request.sid)
SendAck(c) ==
    /\ task[c].pc = "ack"
    /\ task' = [task EXCEPT ![c] =
                   [Emit(@, Private(status, "message_sent", c, @.mid, @.ts, ""))
                    EXCEPT !.pc = "done"]]
    /\ UNCHANGED <<status, connected_users, rooms, messages, clock, disc,
                   everJoined, identified, resp, probe, events>>

(***************************************************************************)
(* The history route.                                                      *)
(***************************************************************************)
\* GET /messages/<int:user1>/<int:user2>
get_messages(user1, user2) ==
    /\ \E desc \in BOOLEAN :
          resp' = [user1 |-> user1, user2 |-> user2, status |-> 200,
                   rows |-> History(messages, user1, user2, desc)]
    /\ UNCHANGED <<status, connected_users, rooms, messages, clock, task, disc,
                   everJoined, identified, probe, events>>

RouteIds == 1..2

(***************************************************************************)
(* The relay: every socket handler, running concurrently.  Each client     *)
(* connects with an id of its own (the id of connection c is str(c)).      *)
(***************************************************************************)
OwnId(c) == IntToStr(c)

Next ==
    \/ \E c \in Conns : Connect(c, OwnId(c))
    \/ \E c \in Conns : Disconnect(c)
    \/ \E c \in Conns : DiscScan(c)
    \/ \E c \in Conns : DiscDel(c)
    \/ \E c \in Conns : DiscLeave(c)
    \/ \E c \in Conns, p \in IdPairs, n \in BOOLEAN : JoinEnter(c, p[1], p[2], n)
    \/ \E c \in Conns : JoinSystem(c)
    \/ \E c \in Conns : JoinConfirm(c)
    \/ \E c \in Conns, p \in IdPairs, m \in RawTexts : SendStart(c, p[1], p[2], m)
    \/ \E c \in Conns : SendCommit(c)
    \/ \E c \in Conns : SendBroadcast(c)
    \/ \E c \in Conns : SendAck(c)
    \/ \E c \in Conns : Except(c)

Spec == Init /\ [][Next]_vars

(***************************************************************************)
(* Presence and rooms: clients that connect under any id or under none,    *)
(* join and disconnect.                                                    *)
(***************************************************************************)
PresenceNext ==
    \/ \E c \in Conns, u \in UserIds : Connect(c, u)
    \/ \E c \in Conns : ConnectAnonymous(c)
    \/ \E c \in Conns : Disconnect(c)
    \/ \E c \in Conns : DiscScan(c)
    \/ \E c \in Conns : DiscDel(c)
    \/ \E c \in Conns : DiscLeave(c)
    \/ \E c \in Conns, p \in IdPairs, n \in BOOLEAN : JoinEnter(c, p[1], p[2], n)
    \/ \E c \in Conns : JoinSystem(c)
    \/ \E c \in Conns : JoinConfirm(c)
    \/ \E c \in Conns : Except(c)

PresenceSpec == Init /\ [][PresenceNext]_vars

(***************************************************************************)
(* The message table and its readers: sends and the history route.         *)
(***************************************************************************)
HistoryNext ==
    \/ \E c \in Conns : ConnectAnonymous(c)
    \/ \E c \in Conns, p \in IdPairs, m \in RawTexts : SendStart(c, p[1], p[2], m)
    \/ \E c \in Conns : SendCommit(c)
    \/ \E c \in Conns : SendBroadcast(c)
    \/ \E c \in Conns : SendAck(c)
    \/ \E c \in Conns : Except(c)
    \/ \E a, b \in RouteIds : get_messages(a, b)

HistorySpec == Init /\ [][HistoryNext]_vars

(***************************************************************************)
(* Sends of clients that may disconnect at any moment.  A handler that     *)
(* has started runs in a thread of its own and keeps being scheduled       *)
(* until it returns, whatever happens to its connection: each of its       *)
(* steps is taken once it is the handler's next step.                      *)
(***************************************************************************)
SendLiveNext ==
    \/ \E c \in Conns : Connect(c, OwnId(c))
    \/ \E c \in Conns : Disconnect(c)
    \/ \E c \in Conns : DiscScan(c)
    \/ \E c \in Conns : DiscDel(c)
    \/ \E c \in Conns : DiscLeave(c)
    \/ \E c \in Conns, p \in IdPairs, m \in RawTexts : SendStart(c, p[1], p[2], m)
    \/ \E c \in Conns : SendCommit(c)
    \/ \E c \in Conns : SendBroadcast(c)
    \/ \E c \in Conns : SendAck(c)
    \/ \E c \in Conns : Except(c)

SendLiveSpec ==
    /\ Init
    /\ [][SendLiveNext]_vars
    /\ \A c \in Conns :
          /\ WF_vars(SendCommit(c))
          /\ WF_vars(SendBroadcast(c))
          /\ WF_vars(SendAck(c))
          /\ WF_vars(Except(c))

(***************************************************************************)
(* get_room on its own: two calls on integers of one and two digits,       *)
(* negative ones included.                                                 *)
(***************************************************************************)
ProbeIds == (0 - MaxNeg)..MaxProbe

RoomInit ==
    /\ status = [c \in Conns |-> "new"]
    /\ connected_users = <<>>
    /\ rooms = {}
    /\ messages = <<>>
    /\ clock = 1
    /\ task = [c \in Conns |-> NoTask]
    /\ disc = [c \in Conns |-> NoDisc]
    /\ everJoined = {}
    /\ identified = {}
    /\ resp = NoResp
    /\ events = 0
    /\ \E a, b, c, d \in ProbeIds :
          probe = [NoProbe EXCEPT !.a = a, !.b = b, !.c = c, !.d = d]

RoomProbe ==
    /\ ~probe.done
    /\ probe' = [probe EXCEPT !.done = TRUE,
                              !.r1 = get_room(probe.a, probe.b),
                              !.r2 = get_room(probe.c, probe.d)]
    /\ UNCHANGED <<status, connected_users, rooms, messages, clock, task, disc,
                   everJoined, identified, resp, events>>

RoomSpec == RoomInit /\ [][RoomProbe]_vars

(***************************************************************************)
(* Properties.                                                             *)
(***************************************************************************)
Last(q) == q[Len(q)]

Evs(c) == {task[c].out[k] : k \in 1..Len(task[c].out)}

\* the connections that are members of the room of the pair {a, b},
\* whichever way round the pair was given when they joined
PairMembers(rs, a, b) ==
    {c \in Conns : <<get_room(a, b), c>> \in rs \/ <<get_room(b, a), c>> \in rs}

\* a string that is empty once trimmed: nothing but whitespace
AllBlank(m) == \A k \in 1..Len(m) : m[k] \in Whitespace

(* C1: when a send_message handler's broadcast goes through, the
   receive_message event reaches exactly the connections that are members
   of the room of {sender_id, receiver_id} at that moment, and every one
   of them has joined that room; a connection that never joined it does
   not receive the message. *)
C1_DeliveredToRoomMembers ==
    [][\A c \in Conns :
          (task[c].pc = "broadcast" /\ task'[c].pc = "ack") =>
              LET e == Last(task'[c].out)
                  a == task[c].sender_id
                  b == task[c].receiver_id
              IN  /\ e.ev = "receive_message"
                  /\ e.mid = task[c].mid
                  /\ e.rcpts = PairMembers(rooms, a, b)
                  /\ \A d \in Conns :
                        <<d, {a, b}>> \notin everJoined => d \notin e.rcpts]_vars

\* a finished send whose message reached a member of the room while an
\* open connection that never joined that room got nothing
C1_Witness ==
    \E c \in Conns :
        /\ task[c].kind = "send" /\ task[c].pc = "done"
        /\ \E e \in Evs(c) :
              /\ e.ev = "receive_message"
              /\ e.rcpts # {}
              /\ \E d \in Conns \ e.rcpts :
                    /\ status[d] = "open"
                    /\ <<d, {task[c].sender_id, task[c].receiver_id}>> \notin everJoined

(* C2: a send_message whose text is empty after trimming adds no row to
   the Message table and the handler ends having emitted exactly one
   event, an error, to the sending connection and to no other. *)
C2_EmptyTextOnlyError ==
    [][\A c \in Conns, p \in IdPairs, m \in RawTexts :
          (events' # events /\ task'[c] # task[c] /\ AllBlank(m)
              /\ SendStart(c, p[1], p[2], m)) =>
              /\ messages' = messages
              /\ task'[c].pc = "done"
              /\ Len(task'[c].out) = 1
              /\ task'[c].out[1].ev = "error"
              /\ task'[c].out[1].sid = c
              /\ task'[c].out[1].rcpts \subseteq {c}
              /\ (status[c] = "open" => task'[c].out[1].rcpts = {c})]_vars

\* the handler refused an all-blank text of a payload with valid ids
C2_Witness ==
    \E c \in Conns :
        /\ task[c].kind = "send" /\ task[c].pc = "done"
        /\ Len(task[c].out) = 1
        /\ task[c].out[1].why = "Message cannot be empty"
        /\ task[c].out[1].rcpts = {c}
        /\ messages = <<>>

(* C3: whatever the interleaving of the send handlers, no two rows of the
   Message table have the same id, and a row written later has a greater
   id than every row written before it. *)
C3_IdsUniqueIncreasing ==
    \A i, j \in 1..Len(messages) : i < j => messages[i].id < messages[j].id

\* two sends overlapped: the one that took its timestamp later wrote first
C3_Witness ==
    /\ Len(messages) = 2
    /\ messages[1].timestamp > messages[2].timestamp
    /\ messages[1].id < messages[2].id

(* C4: every receive_message and message_sent event a handler has emitted
   carries the id and timestamp of a row that is in the Message table. *)
C4_EmittedAfterCommit ==
    \A c \in Conns : \A e \in Evs(c) :
        e.ev \in {"receive_message", "message_sent"} =>
            \E k \in 1..Len(messages) :
                messages[k].id = e.mid /\ messages[k].timestamp = e.ts

\* a send that was acknowledged
C4_Witness ==
    \E c \in Conns : \E e \in Evs(c) :
        e.ev = "message_sent" /\ e.mid > 0 /\ e.rcpts = {c}

(* C5: a send that has written its row always acknowledges it: whenever
   the handler ends after the commit, it has emitted message_sent, also
   when the receive_message broadcast failed. *)
C5_AckDespiteBroadcastFailure ==
    \A c \in Conns :
        (task[c].kind = "send" /\ task[c].pc = "done" /\ task[c].mid # 0) =>
            \E e \in Evs(c) : e.ev = "message_sent" /\ e.mid = task[c].mid

(* C6: once the disconnect of a connection has been handled, no entry of
   the presence dict has it as its value and it is a member of no room
   (the disconnect handler emits no event at all). *)
C6_DisconnectCleansUp ==
    \A c \in Conns :
        status[c] = "closed" =>
            /\ \A k \in LiveIdx(connected_users) : connected_users[k].sid # c
            /\ \A m \in rooms : m[2] # c

(* C7: a join that goes through emits the system notice once, to exactly
   the members of the room at that moment, the joiner among them unless it
   has disconnected meanwhile, and then joined_room once, to the joiner
   only. *)
C7_JoinNoticeOnce ==
    [][\A c \in Conns :
          /\ (task[c].pc = "system" /\ task'[c].pc = "confirm") =>
                LET e == Last(task'[c].out)
                IN  /\ Len(task'[c].out) = 1
                    /\ e.ev = "system"
                    /\ e.rcpts = PairMembers(rooms, task[c].sender_id,
                                             task[c].receiver_id)
                    /\ (status[c] # "closed" => c \in e.rcpts)
          /\ (task[c].pc = "confirm" /\ task'[c].pc = "done") =>
                LET e == Last(task'[c].out)
                IN  /\ Len(task'[c].out) = 2
                    /\ task'[c].out[1].ev = "system"
                    /\ e.ev = "joined_room"
                    /\ e.sid = c
                    /\ e.rcpts \subseteq {c}
                    /\ (status[c] = "open" => e.rcpts = {c})]_vars

\* two connections joined the same room at the same time and each got
\* both notices, its own included
C7_Witness ==
    \E c, d \in Conns :
        /\ c # d
        /\ \A x \in {c, d} :
              /\ task[x].kind = "join" /\ task[x].pc = "done"
              /\ Len(task[x].out) = 2
              /\ task[x].out[1].ev = "system"
              /\ task[x].out[1].rcpts = {c, d}
              /\ task[x].out[2].ev = "joined_room"
              /\ task[x].out[2].rcpts = {x}
        /\ RoomOf(task[c]) = RoomOf(task[d])
        /\ task[c].sender_id # task[d].sender_id

(* C8: get_room(a, b) = get_room(c, d) exactly when {a, b} = {c, d}. *)
C8_RoomCanonical ==
    probe.done => ((probe.r1 = probe.r2) <=> ({probe.a, probe.b} = {probe.c, probe.d}))

\* the same pair given both ways round resolved to one room
C8_Witness ==
    /\ probe.done
    /\ probe.a # probe.b
    /\ probe.c = probe.b /\ probe.d = probe.a
    /\ probe.r1 = probe.r2

(* C9: the history of (a, b) holds exactly the rows whose sender and
   receiver are a and b, either way round, each once, and the history of
   (b, a) is the same sequence. *)
C9_HistoryExactlyThePair ==
    \A a, b \in RouteIds : \A desc \in BOOLEAN :
        LET h == History(messages, a, b, desc)
            want == {k \in 1..Len(messages) :
                        {messages[k].sender_id, messages[k].receiver_id} = {a, b}}
        IN  /\ {h[k] : k \in 1..Len(h)} = {messages[k] : k \in want}
            /\ Len(h) = Cardinality(want)
            /\ h = History(messages, b, a, desc)

\* a response holding a message of each direction
C9_Witness ==
    /\ resp.status = 200
    /\ resp.user1 # resp.user2
    /\ Len(resp.rows) = 2
    /\ resp.rows[1].sender_id # resp.rows[2].sender_id
    /\ resp.rows = History(messages, resp.user1, resp.user2, TRUE)

(* C10: the history is in ascending order of timestamp, and rows of equal
   timestamp are in ascending order of id. *)
C10_HistorySortedTiesById ==
    \A i, j \in 1..Len(resp.rows) :
        i < j =>
            \/ resp.rows[i].timestamp < resp.rows[j].timestamp
            \/ /\ resp.rows[i].timestamp = resp.rows[j].timestamp
               /\ resp.rows[i].id < resp.rows[j].id

(* C11: a join whose sender_id or receiver_id does not parse as an integer,
   or whose sender_username is absent, emits one error event, to the
   requesting connection only, and changes nothing else: the room
   membership and the presence dict stay as they were, no system and no
   joined_room event is emitted, and the connection keeps its state and is
   free to handle its next event. *)
C11_BadJoinOnlyError ==
    [][\A c \in Conns, p \in IdPairs, n \in BOOLEAN :
          (events' # events /\ task'[c] # task[c]
              /\ (~IsInt(p[1]) \/ ~IsInt(p[2]) \/ ~n)
              /\ JoinEnter(c, p[1], p[2], n)) =>
              /\ rooms' = rooms
              /\ connected_users' = connected_users
              /\ messages' = messages
              /\ status' = status
              /\ \A d \in Conns \ {c} : task'[d] = task[d]
              /\ task'[c].pc = "done"
              /\ Len(task'[c].out) = 1
              /\ task'[c].out[1].ev = "error"
              /\ task'[c].out[1].sid = c
              /\ task'[c].out[1].rcpts \subseteq {c}
              /\ (status[c] = "open" => task'[c].out[1].rcpts = {c})]_vars

\* an open connection whose join was refused: it got the error, it is in
\* no room, and the clients may still send events
C11_Witness ==
    \E c \in Conns :
        /\ status[c] = "open"
        /\ task[c].kind = "join" /\ task[c].pc = "done"
        /\ Len(task[c].out) = 1
        /\ task[c].out[1].why = "Failed to join room"
        /\ task[c].out[1].rcpts = {c}
        /\ Members(rooms, get_room(1, 2)) = {}
        /\ events < MaxEvents

(* C12: for every send that was acknowledged, the message_sent event, the
   receive_message event and the stored row that the history returns carry
   the same message id and the same timestamp, and that timestamp is a
   reading of the server's clock taken for the row (the payload of the
   client carries no timestamp the handler reads). *)
C12_SameIdAndTimestamp ==
    \A c \in Conns : \A e \in Evs(c) :
        e.ev = "message_sent" =>
            /\ e.mid = task[c].mid /\ e.ts = task[c].ts
            /\ e.ts \in 1..clock
            /\ \E b \in Evs(c) :
                  b.ev = "receive_message" /\ b.mid = e.mid /\ b.ts = e.ts
            /\ \A desc \in BOOLEAN :
                  LET h == History(messages, task[c].sender_id,
                                   task[c].receiver_id, desc)
                      at == {k \in 1..Len(h) : h[k].id = e.mid}
                  IN  /\ Cardinality(at) = 1
                      /\ \A k \in at : h[k].timestamp = e.ts
            /\ \A k \in 1..Len(resp.rows) :
                  resp.rows[k].id = e.mid => resp.rows[k].timestamp = e.ts

\* an acknowledged send whose row a later history response returned, next
\* to a row of another send
C12_Witness ==
    \E c \in Conns : \E e \in Evs(c) :
        /\ e.ev = "message_sent"
        /\ task[c].pc = "done"
        /\ Len(resp.rows) = 2
        /\ \E k \in 1..2 : resp.rows[k].id = e.mid /\ resp.rows[k].timestamp = e.ts
        /\ resp.rows[1].timestamp # resp.rows[2].timestamp

(* C13: for any two rows of the Message table, the one with the smaller id
   does not have the later timestamp: ordering by id and ordering by
   timestamp never disagree, whatever the interleaving of the send
   handlers. *)
C13_IdOrderIsTimestampOrder ==
    \A i, j \in 1..Len(messages) :
        messages[i].id < messages[j].id =>
            messages[i].timestamp <= messages[j].timestamp

(* C14: the del of a disconnect handler removes only an entry whose value
   is the disconnecting connection and it never raises: an entry that maps
   a participant to another connection (one that connected under the same
   id meanwhile) is still there, with the same value, after the step. *)
C14_UnregisterOnlyOwnEntry ==
    [][\A c \in Conns :
          (disc[c].pc = "del" /\ disc'[c].pc # "del") =>
              /\ disc'[c].pc # "raised"
              /\ \A u \in UserIds :
                    Lookup(connected_users, u) \notin {0, c} =>
                        Lookup(connected_users', u) = Lookup(connected_users, u)]_vars

(* C15: a connection is a member of a room only if it has completed a
   connect that carried a participant id, and a closed connection is a
   member of no room. *)
C15_JoinedOnlyAfterIdentified ==
    \A m \in rooms : m[2] \in identified /\ status[m[2]] # "closed"

(* C16: every member of the room of participants a and b is a connection
   that the presence dict holds under the id of a or of b; a connection
   registered under a third id is not a member of that room. *)
C16_MembersAreThePair ==
    \A a, b \in RouteIds :
        \A c \in Members(rooms, get_room(a, b)) :
            \/ Lookup(connected_users, IntToStr(a)) = c
            \/ Lookup(connected_users, IntToStr(b)) = c

(* C17: every message that has been committed is eventually broadcast as
   receive_message and acknowledged with message_sent by its handler, also
   when the sending connection disconnects right after the commit (the
   handler keeps being scheduled). *)
C17_AppendedEventuallyAcked ==
    \A c \in Conns : \A id \in 1..MaxEvents :
        (task[c].pc = "broadcast" /\ task[c].mid = id) ~>
            (\E b, e \in Evs(c) :
                /\ b.ev = "receive_message" /\ b.mid = id
                /\ e.ev = "message_sent" /\ e.mid = id)

(* C18: a send_message handler that ended with an error event to its
   sender has written no row: no message is both in the Message table and
   reported to its sender as failed. *)
C18_ErrorMeansNotStored ==
    \A c \in Conns :
        (/\ task[c].kind = "send" /\ task[c].pc = "done"
         /\ \E e \in Evs(c) : e.ev = "error") =>
            task[c].mid = 0

(* C19: every value of the presence dict is a connection that is open (or
   whose disconnect is still being handled), and no connection is the
   value of more than one participant id. *)
C19_PresenceValuesOpenAndUnique ==
    /\ \A k \in LiveIdx(connected_users) :
          status[connected_users[k].sid] \in {"open", "closing"}
    /\ \A j, k \in LiveIdx(connected_users) :
          connected_users[j].sid = connected_users[k].sid => j = k
=============================================================================
